---- MODULE Spec2Model ----
(***************************************************************************)
(* pm2-zabbix: the process tracker (lib/PM2Tracker.js), the process state  *)
(* container (lib/ProcessState.js), the reporting monitor                  *)
(* (lib/PM2ZabbixMonitor.js), the discovery registry                       *)
(* (lib/ZabbixDataProvider.js) and the program that wires them             *)
(* (monitor.js), as one state machine.                                     *)
(*                                                                         *)
(* Node runs every callback to completion on one thread, so each action    *)
(* below is one callback: a timer tick, the completion of one I/O request, *)
(* or the delivery of one bus event.  The promise library (when.js) runs   *)
(* the continuations of a settled promise before the next I/O callback, so *)
(* a chain of .then() callbacks that issue no I/O belongs to the action    *)
(* of the completion that settled the promise.                             *)
(***************************************************************************)
EXTENDS Integers, Sequences, FiniteSets, Bags, TLC

VARIABLES
    trackerPc,       \* where PM2Tracker.start() is: idle, connecting, launching, listing, started, failed
    busHandler,      \* TRUE once bus.on('process:event', ...) has been called
    processes,       \* PM2Tracker._processes: the cached process map
    monitor,         \* options.monitor of PM2ZabbixMonitor
    listeners,       \* number of 'processStateChanged' listeners on the tracker
    timers,          \* the intervals armed with setInterval
    discoveryItems,  \* ZabbixDataProvider._discoveryItems
    inflight,        \* bag of the I/O requests issued and not yet completed
    discover,        \* argv.discover of monitor.js
    stdout,          \* what monitor.js has written to process.stdout, in order
    exitStatus,      \* Running, or the status the node process exited with
    snapshot,        \* the result of getDiscoveryData() a caller holds, or Undefined
    stopCalled,      \* TRUE once PM2Tracker.stop() has been called (history)
    delivered,       \* per identity, the last bus event delivered for it, and what
                     \* the initial list put in its place if loaded since (history)
    last             \* what the last callback did (history)

\* the state of the node process monitor.js runs in
cli == <<discover, stdout, exitStatus>>

\* what the callers of the library hold
callers == <<snapshot, stopCalled>>

vars == <<trackerPc, busHandler, processes, monitor, listeners, timers,
          discoveryItems, inflight, cli, callers, delivered, last>>

----------------------------------------------------------------------------
(* Bounds of the model *)

\* manager-assigned indices (pm_id) range over 0..MaxPmId
MaxPmId == 1
\* at most this many I/O requests are in flight at once
MaxInFlight == 2
\* callers of the registry add items while it holds fewer than this many
MaxItems == 3

----------------------------------------------------------------------------
(* Input domains *)

Names == {"web"}
PmIds == 0..MaxPmId

\* What the supervisor may report about one process at one moment.  The first
\* two readings differ in cpu, memory and restarts only.
Readings ==
    { [status |-> "online",   usage |-> [cpu |-> 5, memory |-> 64],  restarts |-> 0],
      [status |-> "online",   usage |-> [cpu |-> 9, memory |-> 128], restarts |-> 1],
      [status |-> "stopping", usage |-> [cpu |-> 0, memory |-> 32],  restarts |-> 1] }

\* An element of the array pm2.list() yields.
ListEntry(name, id, r) ==
    [name |-> name, pm_id |-> id,
     pm2_env |-> [status |-> r.status, restart_time |-> r.restarts],
     monit |-> r.usage]

ListEntries == { ListEntry(n, i, r) : n \in Names, i \in PmIds, r \in Readings }

\* pm2.list() yields an array in which every pm_id occurs once.
ProcessLists ==
    { l \in UNION { [1..n -> ListEntries] : n \in 0..(MaxPmId + 1) } :
        \A i, j \in 1..Len(l) : i # j => l[i].pm_id # l[j].pm_id }

\* The process description a 'process:event' of the bus carries, with the
\* properties ProcessState reads from it.
BusProcess(name, id, r) ==
    [name |-> name, pm_id |-> id, status |-> r.status,
     resources |-> r.usage, restarts |-> r.restarts]

\* The items and the removal specifications callers of the registry pass: an
\* item has a process id and may have a name; a specification has any of the
\* two keys, or none.
RegistryItems ==
    { ("{#PROCESS_ID}" :> "X"),
      ("{#PROCESS_ID}" :> "Y"),
      ("{#PROCESS_ID}" :> "X") @@ ("{#PROCESS_NAME}" :> "a") }

RemovalSpecifications ==
    { << >>,
      ("{#PROCESS_ID}" :> "X"),
      ("{#PROCESS_ID}" :> "Y"),
      ("{#PROCESS_NAME}" :> "a"),
      ("{#PROCESS_ID}" :> "X") @@ ("{#PROCESS_NAME}" :> "a"),
      ("{#PROCESS_ID}" :> "Z") }

\* Two processes, the name of one being the identity of the other, as the
\* list and the bus describe them.
IdentityProcesses == { <<"web", 1>>, <<"web-1", 0>> }
IdentityReadings == { r \in Readings : r.status = "online" /\ r.restarts = 0 }
IdentityEntries ==
    { ListEntry(p[1], p[2], r) : p \in IdentityProcesses, r \in IdentityReadings }
IdentityLists ==
    { l \in UNION { [1..n -> IdentityEntries] : n \in 0..2 } :
        \A i, j \in 1..Len(l) : i # j => l[i].pm_id # l[j].pm_id }
IdentityEvents ==
    { [process |-> BusProcess(p[1], p[2], r)] : p \in IdentityProcesses, r \in IdentityReadings }

BusEvents == { [process |-> BusProcess(n, i, r)] : n \in Names, i \in PmIds, r \in Readings }

----------------------------------------------------------------------------
(* JavaScript values *)

\* the value undefined
Undefined == [undefined |-> TRUE]

\* A plain object whose keys are not array indices: its own properties in
\* insertion order, as a sequence of <<key, value>> pairs.
EmptyObject == << >>

ObjKeys(o) == [i \in 1..Len(o) |-> o[i][1]]

ObjHas(o, k) == \E i \in 1..Len(o) : o[i][1] = k

\* o[k]
ObjGet(o, k) ==
    IF ObjHas(o, k) THEN o[CHOOSE i \in 1..Len(o) : o[i][1] = k][2] ELSE Undefined

\* o[k] = v: an existing property keeps its place, a new one goes last
ObjSet(o, k, v) ==
    IF ObjHas(o, k)
    THEN [i \in 1..Len(o) |-> IF o[i][1] = k THEN <<k, v>> ELSE o[i]]
    ELSE Append(o, <<k, v>>)

\* the set of the keys of o
KeySet(o) == { o[i][1] : i \in 1..Len(o) }

\* a property the argument object lacks reads as undefined
Prop(obj, p) == IF p \in DOMAIN obj THEN obj[p] ELSE Undefined

----------------------------------------------------------------------------
(* lib/ProcessState.js *)

ProcessState(processObject) ==
    [name      |-> Prop(processObject, "name"),
     status    |-> Prop(processObject, "status"),
     resources |-> Prop(processObject, "resources"),
     restarts  |-> Prop(processObject, "restarts"),
     pid       |-> Prop(processObject, "pid")]

\* a variant of equals that compares the whole state, not the status alone
Equals_WholeState(this, anotherState) ==
    anotherState # Undefined /\ anotherState = this

\* ProcessState.prototype.equals: this.equals(anotherState), as a boolean
Equals(this, anotherState) ==
    anotherState # Undefined /\ anotherState.status = this.status

----------------------------------------------------------------------------
(* lib/PM2Tracker.js: the pure parts *)

\* a variant of getProcessID that leaves the index out
getProcessID_NameOnly(processObject) == processObject.name

getProcessID(processObject) ==
    processObject.name \o "-" \o ToString(processObject.pm_id)

RECURSIVE generateProcessMapFrom(_, _)
generateProcessMapFrom(acc, processList) ==
    IF processList = << >> THEN acc
    ELSE LET processEntry == Head(processList)
             processID == getProcessID(processEntry)
         IN generateProcessMapFrom(
                ObjSet(acc, processID,
                       ProcessState([name      |-> processEntry.name,
                                     status    |-> processEntry.pm2_env.status,
                                     resources |-> processEntry.monit,
                                     restarts  |-> processEntry.pm2_env.restart_time])),
                Tail(processList))

generateProcessMap(processList) == generateProcessMapFrom(EmptyObject, processList)

\* a variant of _loadProcessList that adds the list to the cache it finds
loadProcessList_Merge(cache, processList) == generateProcessMapFrom(cache, processList)

\* _loadProcessList: the new value of _processes
loadProcessList(cache, processList) == generateProcessMap(processList)

getCachedProcessMap == processes

\* a variant of getProcessMap that adds the list to the cached map
getProcessMap_Merge(processList) == generateProcessMapFrom(processes, processList)

\* getProcessMap: the map its promise fulfils with, given the list pm2 yields
getProcessMap(processList) == generateProcessMap(processList)

\* the test of line 469: !oldState || !oldState.equals(newState)
statusChanged(oldState, newState) ==
    oldState = Undefined \/ ~Equals(oldState, newState)

\* a variant of _handleProcessEvent that writes the cache only when it emits
handledProcesses_OnChange(cache, event) ==
    IF statusChanged(ObjGet(cache, getProcessID(event.process)), ProcessState(event.process))
    THEN ObjSet(cache, getProcessID(event.process), ProcessState(event.process))
    ELSE cache

\* a variant of _handleProcessEvent that drops the entry of a process that is
\* stopping
handledProcesses_DropStopping(cache, event) ==
    IF event.process.status = "stopping"
    THEN SelectSeq(cache, LAMBDA entry : entry[1] # getProcessID(event.process))
    ELSE ObjSet(cache, getProcessID(event.process), ProcessState(event.process))

\* _handleProcessEvent: the new value of _processes
handledProcesses(cache, event) ==
    ObjSet(cache, getProcessID(event.process), ProcessState(event.process))

\* a variant of _handleProcessEvent that emits before it writes the cache
cacheAtEmit_BeforeWrite(cache, event) == cache

\* _handleProcessEvent: the cached map as a listener called by emit() finds
\* it; the assignment of line 467 comes before the emit of line 470
cacheAtEmit(cache, event) == handledProcesses(cache, event)

\* a variant of _handleProcessEvent that emits without the old state
handledEmits_NoOld(cache, event) ==
    LET processID == getProcessID(event.process)
        oldState == ObjGet(cache, processID)
        newState == ProcessState(event.process)
    IN IF statusChanged(oldState, newState)
       THEN << [processID |-> processID, oldState |-> Undefined, newState |-> newState] >>
       ELSE << >>

\* _handleProcessEvent: the 'processStateChanged' events it emits, in order
handledEmits(cache, event) ==
    LET processID == getProcessID(event.process)
        oldState == ObjGet(cache, processID)
        newState == ProcessState(event.process)
    IN IF statusChanged(oldState, newState)
       THEN << [processID |-> processID, oldState |-> oldState, newState |-> newState] >>
       ELSE << >>

----------------------------------------------------------------------------
(* lib/ZabbixDataProvider.js *)

\* a variant of addDiscoveryItem that puts the item first
addDiscoveryItem_First(items, item) == <<item>> \o items

\* a variant of addDiscoveryItem that skips an item the list already has
addDiscoveryItem_Dedup(items, item) ==
    IF \E i \in 1..Len(items) : items[i] = item THEN items ELSE Append(items, item)

addDiscoveryItem(items, item) == Append(items, item)

getDiscoveryData == [data |-> discoveryItems]

\* removeMatching: the test every() makes for the keys of the specification.
\* A property the item lacks reads undefined, which is === to no string.
matchesSpecification(removalSpecification, discoveryItem) ==
    \A removalKey \in DOMAIN removalSpecification :
        /\ removalKey \in DOMAIN discoveryItem
        /\ removalSpecification[removalKey] = discoveryItem[removalKey]

\* a variant of removeDiscoveryItems that removes the items matching on some key
removeDiscoveryItems_SomeKey(items, removalSpecification) ==
    SelectSeq(items, LAMBDA discoveryItem :
        ~(\E removalKey \in DOMAIN removalSpecification :
              /\ removalKey \in DOMAIN discoveryItem
              /\ removalSpecification[removalKey] = discoveryItem[removalKey]))

\* removeDiscoveryItems: the new value of _discoveryItems, a new array
removeDiscoveryItems(items, removalSpecification) ==
    SelectSeq(items, LAMBDA discoveryItem :
        ~matchesSpecification(removalSpecification, discoveryItem))

\* a request to the transport: ZabbixDataProvider.send(values)
SendRequest(origin, values) == [kind |-> "send", origin |-> origin, values |-> values]

----------------------------------------------------------------------------
(* lib/PM2ZabbixMonitor.js: the pure parts *)

getDataKey(processID, processState, dataItem) ==
    "pm2.processes[" \o processID \o "," \o dataItem \o "]"

\* a variant of getManagerKey that names the supervisor as a process
getManagerKey_AsProcess(dataItem) == "pm2.processes[PM2," \o dataItem \o "]"

getManagerKey(dataItem) == "pm2." \o dataItem

\* the constructor: the number of listeners it registers on the tracker
constructedListeners(monitorOption) == IF monitorOption THEN 1 ELSE 0

\* a variant of the listener that reports the cpu usage with the status
statusObject_WithCpu(changeEvent) ==
    (getDataKey(changeEvent.processID, changeEvent.newState, "status")
        :> changeEvent.newState.status) @@
    (getDataKey(changeEvent.processID, changeEvent.newState, "cpu")
        :> changeEvent.newState.resources.cpu)

\* the listener of _initListeners: the object it hands to send()
statusObject(changeEvent) ==
    getDataKey(changeEvent.processID, changeEvent.newState, "status")
        :> changeEvent.newState.status

\* the sends the listeners initiate for the emitted events, in order
forwarded(nListeners, emits) ==
    IF nListeners = 0 THEN << >>
    ELSE [i \in 1..Len(emits) |-> statusObject(emits[i])]

\* start(): registerProcessForDiscovery over Object.keys(processMap)
RECURSIVE registerForDiscovery(_, _, _)
registerForDiscovery(items, processMap, keys) ==
    IF keys = << >> THEN items
    ELSE registerForDiscovery(
             addDiscoveryItem(items,
                 ("{#PROCESS_ID}" :> Head(keys)) @@
                 ("{#PROCESS_NAME}" :> ObjGet(processMap, Head(keys)).name)),
             processMap, Tail(keys))

\* a variant of start() that arms the intervals whatever options.monitor is
armedTimers_Always(monitorOption) == {"processList", "processManager"}

\* start(): the intervals the second callback arms
armedTimers(monitorOption) ==
    IF monitorOption THEN {"processList", "processManager"} ELSE {}

\* sendProcessList: dataObject, built over Object.keys(processMap)
RECURSIVE processListData(_, _, _)
processListData(dataObject, processMap, keys) ==
    IF keys = << >> THEN dataObject
    ELSE LET processID == Head(keys)
             processState == ObjGet(processMap, processID)
             d1 == (getDataKey(processID, processState, "status") :> processState.status) @@ dataObject
             d2 == (getDataKey(processID, processState, "cpu") :> processState.resources.cpu) @@ d1
             d3 == (getDataKey(processID, processState, "memory") :> processState.resources.memory) @@ d2
             d4 == (getDataKey(processID, processState, "restarts") :> processState.restarts) @@ d3
         IN processListData(d4, processMap, Tail(keys))

\* a variant of sendProcessList that renders the cached map
sendProcessListData_Cached(processMap) ==
    processListData([k \in {} |-> 0], processes, ObjKeys(processes))

\* a variant of sendProcessList that reports the cached status of an identity
\* the cache has
sendProcessListData_CachedStatus(processMap) ==
    LET fresh == processListData([k \in {} |-> 0], processMap, ObjKeys(processMap))
    IN [k \in DOMAIN fresh |->
          IF \E id \in KeySet(processes) :
                 /\ ObjHas(processMap, id)
                 /\ k = getDataKey(id, ObjGet(processes, id), "status")
          THEN ObjGet(processes,
                      CHOOSE id \in KeySet(processes) :
                          k = getDataKey(id, ObjGet(processes, id), "status")).status
          ELSE fresh[k]]

\* {}: an object with no property, as a function
NoValues == [k \in {} |-> 0]

sendProcessListData(processMap) ==
    processListData(NoValues, processMap, ObjKeys(processMap))

\* sendPM2Status: dataObject
sendPM2StatusData(processState) ==
    (getManagerKey("status") :> processState.status) @@
    (getManagerKey("cpu") :> processState.resources.cpu) @@
    (getManagerKey("memory") :> processState.resources.memory) @@
    (getManagerKey("pid") :> processState.pid)

----------------------------------------------------------------------------
(* lib/PM2Tracker.js: getPM2State *)

\* the value null
Null == [null |-> TRUE]

\* The text of the pidfile, as the sequence of its characters.  The
\* supervisor writes its own process id, a positive decimal number.
PidFileContents == { <<"7">>, <<"4", "2", "\n">> }

Whitespace == {" ", "\n", "\t", "\r"}

\* String.prototype.trim
RECURSIVE trim(_)
trim(text) ==
    IF text = << >> THEN text
    ELSE IF Head(text) \in Whitespace THEN trim(Tail(text))
    ELSE IF text[Len(text)] \in Whitespace THEN trim(SubSeq(text, 1, Len(text) - 1))
    ELSE text

DecimalDigits == <<"0", "1", "2", "3", "4", "5", "6", "7", "8", "9">>

\* Number(text), for a text of decimal digits
RECURSIVE Number(_)
Number(text) ==
    IF text = << >> THEN 0
    ELSE 10 * Number(SubSeq(text, 1, Len(text) - 1))
         + (CHOOSE d \in 0..9 : DecimalDigits[d + 1] = text[Len(text)])

\* what pidusage.stat may yield: usage numbers, or nothing
UsageInfos == { [cpu |-> 3, memory |-> 256], Null }

\* error codes of fs.readFile and of pidusage.stat
ErrorCodes == {"ENOENT", "EACCES"}

\* the callback of readFile's promise, up to the call of pidusage.stat
pidFromFile(pidfileContent) == Number(trim(pidfileContent))

\* a variant of the catch that turns every error into null
statErrorIsOffline_Any(code) == TRUE

\* the catch around pidusage.stat: TRUE when the error becomes null
statErrorIsOffline(code) == code = "ENOENT"

\* a variant of getPM2State whose offline state keeps the pid of the pidfile
pm2StateFrom_KeepsPid(usageInfo, PM2PID) ==
    IF usageInfo # Null /\ usageInfo # Undefined
    THEN ProcessState([name |-> "PM2", status |-> "online", resources |-> usageInfo,
                       restarts |-> 0, pid |-> PM2PID])
    ELSE ProcessState([name |-> "PM2", status |-> "offline",
                       resources |-> [cpu |-> 0, memory |-> 0],
                       restarts |-> 0, pid |-> PM2PID])

\* the last callback of getPM2State
pm2StateFrom(usageInfo, PM2PID) ==
    IF usageInfo # Null /\ usageInfo # Undefined
    THEN ProcessState([name |-> "PM2", status |-> "online", resources |-> usageInfo,
                       restarts |-> 0, pid |-> PM2PID])
    ELSE ProcessState([name |-> "PM2", status |-> "offline",
                       resources |-> [cpu |-> 0, memory |-> 0],
                       restarts |-> 0, pid |-> 0])

----------------------------------------------------------------------------
(* monitor.js: the pure parts *)

\* the keys of a discovery item, in the order registerProcessForDiscovery
\* writes them
ItemKeys == <<"{#PROCESS_ID}", "{#PROCESS_NAME}">>

\* JSON.stringify of a string without characters to escape
JSONstring(text) == "\"" \o text \o "\""

\* the properties of a discovery item, one per line, at depth 3
RECURSIVE JSONitemProperties(_, _)
JSONitemProperties(item, keys) ==
    IF keys = << >> THEN ""
    ELSE "\n\t\t\t" \o JSONstring(Head(keys)) \o ": " \o JSONstring(item[Head(keys)])
         \o (IF Tail(keys) = << >> THEN "" ELSE ",")
         \o JSONitemProperties(item, Tail(keys))

\* the keys of ItemKeys the item has
ItemKeysOf(item) == SelectSeq(ItemKeys, LAMBDA k : k \in DOMAIN item)

JSONitem(item) ==
    IF ItemKeysOf(item) = << >> THEN "{}"
    ELSE "{" \o JSONitemProperties(item, ItemKeysOf(item)) \o "\n\t\t}"

RECURSIVE JSONitems(_)
JSONitems(items) ==
    IF items = << >> THEN ""
    ELSE "\n\t\t" \o JSONitem(Head(items))
         \o (IF Tail(items) = << >> THEN "" ELSE ",")
         \o JSONitems(Tail(items))

\* JSON.stringify(discoveryData, null, '\t')
JSONstringify(discoveryData) ==
    "{\n\t\"data\": "
    \o (IF discoveryData.data = << >> THEN "[]"
        ELSE "[" \o JSONitems(discoveryData.data) \o "\n\t]")
    \o "\n}"

\* the status node exits with on an uncaught exception
UncaughtExceptionStatus == {1, 8}

----------------------------------------------------------------------------
(* The state machine *)

\* what a callback did: the operation, its input, the events it emitted, the
\* queries it issued (every request but a send), the batches whose send it
\* initiated, and how it settled the promise of the call it belongs to (""
\* when it settled none)
Did(op, input, emitted, queries, sent, outcome) ==
    [op |-> op, input |-> input, emitted |-> emitted, queries |-> queries,
     sent |-> sent, outcome |-> outcome]

NoInput == [none |-> TRUE]

Issue(bag, request) == bag (+) SetToBag({request})
Complete(bag, request) == bag (-) SetToBag({request})
InFlight(request) == BagIn(request, inflight)
Room(n) == BagCardinality(inflight) + n <= MaxInFlight

RECURSIVE IssueAll(_, _, _)
IssueAll(bag, origin, batches) ==
    IF batches = << >> THEN bag
    ELSE IssueAll(Issue(bag, SendRequest(origin, Head(batches))), origin, Tail(batches))

ConnectRequest == [kind |-> "connect"]
LaunchBusRequest == [kind |-> "launchBus"]
ListRequest == [kind |-> "list"]
ReadFileRequest == [kind |-> "readFile"]
StatRequest(pid) == [kind |-> "stat", pid |-> pid]
DisconnectRequest == [kind |-> "disconnect"]

\* the node process has not exited
RunningStatus == [running |-> TRUE]
Running == exitStatus = RunningStatus

\* process.exit(status), and the exit on an uncaught exception
Exited(status) == [status |-> status]

\* monitor.js: new PM2Tracker(), new ZabbixDataProvider(sender), new PM2ZabbixMonitor(...)
Constructed ==
    /\ trackerPc = "idle"
    /\ busHandler = FALSE
    /\ processes = EmptyObject
    /\ listeners = constructedListeners(monitor)
    /\ timers = {}
    /\ discoveryItems = << >>
    /\ inflight = EmptyBag
    /\ stdout = << >>
    /\ exitStatus = RunningStatus
    /\ snapshot = Undefined
    /\ stopCalled = FALSE
    /\ delivered = NoValues
    /\ last = Did("construct", NoInput, << >>, << >>, << >>, "")

\* node monitor.js [--monitor]: the monitoring run
Init ==
    /\ monitor \in BOOLEAN
    /\ discover = FALSE
    /\ Constructed

\* monitor.start() -> tracker.start() -> pm2.connectAsync()
Start ==
    /\ Running
    /\ trackerPc = "idle"
    /\ trackerPc' = "connecting"
    /\ last' = Did("Start", NoInput, << >>, <<ConnectRequest>>, << >>, "")
    /\ UNCHANGED <<cli, callers, busHandler, processes, monitor, listeners, timers, discoveryItems, inflight, delivered>>

\* a variant of tracker.start() that asks for the list right after connecting
ConnectOk_SkipBus ==
    /\ Running
    /\ trackerPc = "connecting"
    /\ trackerPc' = "listing"
    /\ last' = Did("ConnectOk", NoInput, << >>, <<ListRequest>>, << >>, "")
    /\ UNCHANGED <<cli, callers, busHandler, processes, monitor, listeners, timers, discoveryItems, inflight, delivered>>

\* connect succeeded -> pm2.launchBusAsync()
ConnectOk ==
    /\ Running
    /\ trackerPc = "connecting"
    /\ trackerPc' = "launching"
    /\ last' = Did("ConnectOk", NoInput, << >>, <<LaunchBusRequest>>, << >>, "")
    /\ UNCHANGED <<cli, callers, busHandler, processes, monitor, listeners, timers, discoveryItems, inflight, delivered>>

\* a step of tracker.start() failed: both start() promises reject
StartStepFail ==
    /\ Running
    /\ trackerPc \in {"connecting", "launching", "listing"}
    /\ trackerPc' = "failed"
    /\ last' = Did("StartStepFail", [step |-> trackerPc], << >>, << >>, << >>, "rejected")
    /\ UNCHANGED <<cli, callers, busHandler, processes, monitor, listeners, timers, discoveryItems, inflight, delivered>>

\* launchBus succeeded: the handler is registered -> pm2.listAsync()
LaunchBusOk ==
    /\ Running
    /\ trackerPc = "launching"
    /\ trackerPc' = "listing"
    /\ busHandler' = TRUE
    /\ last' = Did("LaunchBusOk", NoInput, << >>, <<ListRequest>>, << >>, "")
    /\ UNCHANGED <<cli, callers, processes, monitor, listeners, timers, discoveryItems, inflight, delivered>>

\* the initial list arrived: _loadProcessList, tracker.start() fulfils, then
\* the two callbacks of PM2ZabbixMonitor.start, then the callback of done()
\* in monitor.js
StartListOk(processList) ==
    /\ Running
    /\ trackerPc = "listing"
    /\ trackerPc' = "started"
    /\ processes' = loadProcessList(processes, processList)
    /\ discoveryItems' = registerForDiscovery(discoveryItems, getCachedProcessMap',
                                             ObjKeys(getCachedProcessMap'))
    /\ timers' = timers \cup armedTimers(monitor)
    /\ delivered' = [id \in DOMAIN delivered |->
                         [delivered[id] EXCEPT !.loadedSince = TRUE,
                                               !.loaded = ObjGet(processes', id)]]
    /\ IF discover
       THEN /\ stdout' = Append(stdout, JSONstringify(getDiscoveryData'))
            /\ exitStatus' = Exited(0)
       ELSE UNCHANGED <<stdout, exitStatus>>
    /\ last' = Did("StartListOk", [processList |-> processList], << >>, << >>, << >>, "fulfilled")
    /\ UNCHANGED <<discover, callers, busHandler, monitor, listeners, inflight>>

\* a variant of monitor.js that ends a failed run with process.exit(0)
Fatal_ExitZero ==
    /\ Running
    /\ trackerPc = "failed"
    /\ exitStatus' = Exited(0)
    /\ last' = Did("Fatal", NoInput, << >>, << >>, << >>, "")
    /\ UNCHANGED <<discover, stdout, callers, trackerPc, busHandler, processes, monitor,
                   listeners, timers, discoveryItems, inflight, delivered>>

\* monitor.start() rejected and done() has no rejection callback: the promise
\* library throws the error from a timer, and node exits on the uncaught
\* exception with a status that is not 0
Fatal ==
    /\ Running
    /\ trackerPc = "failed"
    /\ \E status \in UncaughtExceptionStatus : exitStatus' = Exited(status)
    /\ last' = Did("Fatal", NoInput, << >>, << >>, << >>, "")
    /\ UNCHANGED <<discover, stdout, callers, trackerPc, busHandler, processes, monitor,
                   listeners, timers, discoveryItems, inflight, delivered>>

\* a variant of the bus event callback that registers an identity the cache
\* did not have for discovery
BusEvent_Discovers(event) ==
    LET emits == handledEmits(processes, event)
        sends == forwarded(listeners, emits)
        processID == getProcessID(event.process)
    IN /\ Running
       /\ busHandler
       /\ Room(Len(sends))
       /\ processes' = handledProcesses(processes, event)
       /\ discoveryItems' =
             IF ObjHas(processes, processID) THEN discoveryItems
             ELSE addDiscoveryItem(discoveryItems,
                      ("{#PROCESS_ID}" :> processID) @@ ("{#PROCESS_NAME}" :> event.process.name))
       /\ inflight' = IssueAll(inflight, "realtime", sends)
       /\ delivered' = (processID :>
                             [process |-> event.process, loadedSince |-> FALSE,
                              loaded |-> Undefined]) @@ delivered
       /\ last' = Did("BusEvent",
                      [event |-> event,
                       oldState |-> ObjGet(processes, processID),
                       first |-> processID \notin DOMAIN delivered,
                       cacheAtEmit |-> cacheAtEmit(processes, event)],
                      emits, << >>, sends, "")
       /\ UNCHANGED <<cli, callers, trackerPc, busHandler, monitor, listeners, timers>>

\* the bus delivers a 'process:event': _handleProcessEvent, and the listeners
BusEvent(event) ==
    LET emits == handledEmits(processes, event)
        sends == forwarded(listeners, emits)
    IN /\ Running
       /\ busHandler
       /\ Room(Len(sends))
       /\ processes' = handledProcesses(processes, event)
       /\ inflight' = IssueAll(inflight, "realtime", sends)
       /\ delivered' = (getProcessID(event.process) :>
                             [process |-> event.process, loadedSince |-> FALSE,
                              loaded |-> Undefined]) @@ delivered
       /\ last' = Did("BusEvent",
                      [event |-> event,
                       oldState |-> ObjGet(processes, getProcessID(event.process)),
                       first |-> getProcessID(event.process) \notin DOMAIN delivered,
                       cacheAtEmit |-> cacheAtEmit(processes, event)],
                      emits, << >>, sends, "")
       /\ UNCHANGED <<cli, callers, trackerPc, busHandler, monitor, listeners, timers, discoveryItems>>

\* a variant of tracker.stop() that also clears the intervals of the monitor
Stop_ClearsIntervals ==
    /\ Running
    /\ ~stopCalled
    /\ Room(1)
    /\ stopCalled' = TRUE
    /\ timers' = {}
    /\ inflight' = Issue(inflight, DisconnectRequest)
    /\ last' = Did("Stop", NoInput, << >>, <<DisconnectRequest>>, << >>, "")
    /\ UNCHANGED <<cli, snapshot, trackerPc, busHandler, processes, monitor, listeners,
                   discoveryItems, delivered>>

\* tracker.stop() -> pm2.disconnectAsync(); nothing of the tracker changes, and
\* the handler stays on the bus object
Stop ==
    /\ Running
    /\ ~stopCalled
    /\ Room(1)
    /\ stopCalled' = TRUE
    /\ inflight' = Issue(inflight, DisconnectRequest)
    /\ last' = Did("Stop", NoInput, << >>, <<DisconnectRequest>>, << >>, "")
    /\ UNCHANGED <<cli, snapshot, trackerPc, busHandler, processes, monitor, listeners, timers,
                   discoveryItems, delivered>>

\* pm2.disconnect called back: the promise of stop() settles
Disconnected(outcome) ==
    /\ Running
    /\ InFlight(DisconnectRequest)
    /\ inflight' = Complete(inflight, DisconnectRequest)
    /\ last' = Did("Disconnected", NoInput, << >>, << >>, << >>, outcome)
    /\ UNCHANGED <<cli, callers, trackerPc, busHandler, processes, monitor, listeners, timers,
                   discoveryItems, delivered>>

\* a caller calls provider.addDiscoveryItem(item): push() changes the array in
\* place, so a result of getDiscoveryData() that holds the same array shows it
AddDiscoveryItem(item) ==
    /\ Running
    /\ Len(discoveryItems) < MaxItems
    /\ discoveryItems' = addDiscoveryItem(discoveryItems, item)
    /\ snapshot' = IF snapshot # Undefined /\ snapshot.sameArray
                   THEN [snapshot EXCEPT !.data = addDiscoveryItem(snapshot.data, item)]
                   ELSE snapshot
    /\ last' = Did("addDiscoveryItem", [item |-> item], << >>, << >>, << >>, "")
    /\ UNCHANGED <<cli, stopCalled, trackerPc, busHandler, processes, monitor, listeners, timers,
                   inflight, delivered>>

\* a caller calls provider.removeDiscoveryItems(removalSpecification): filter()
\* makes a new array, and the one a result of getDiscoveryData() holds is
\* no longer the array of the registry
RemoveDiscoveryItems(removalSpecification) ==
    /\ Running
    /\ discoveryItems' = removeDiscoveryItems(discoveryItems, removalSpecification)
    /\ snapshot' = IF snapshot # Undefined
                   THEN [snapshot EXCEPT !.sameArray = FALSE]
                   ELSE snapshot
    /\ last' = Did("removeDiscoveryItems",
                   [removalSpecification |-> removalSpecification,
                    removed |-> Len(discoveryItems) - Len(discoveryItems')],
                   << >>, << >>, << >>, "")
    /\ UNCHANGED <<cli, stopCalled, trackerPc, busHandler, processes, monitor, listeners, timers,
                   inflight, delivered>>

\* a caller calls provider.getDiscoveryData() and keeps the result: an object
\* whose data property is the array of the registry itself (the model follows
\* the last such result)
GetDiscoveryData ==
    /\ Running
    /\ snapshot' = [data |-> getDiscoveryData.data, sameArray |-> TRUE,
                    asReturned |-> getDiscoveryData.data]
    /\ last' = Did("getDiscoveryData", NoInput, << >>, << >>, << >>, "")
    /\ UNCHANGED <<cli, stopCalled, trackerPc, busHandler, processes, monitor, listeners, timers,
                   discoveryItems, inflight, delivered>>

\* a variant of the processList interval that skips a tick while the query of
\* an earlier tick is pending
ProcessListTick_Skip ==
    /\ Running
    /\ "processList" \in timers
    /\ ~InFlight(ListRequest)
    /\ Room(1)
    /\ inflight' = Issue(inflight, ListRequest)
    /\ last' = Did("ProcessListTick", NoInput, << >>, <<ListRequest>>, << >>, "")
    /\ UNCHANGED <<cli, callers, trackerPc, busHandler, processes, monitor, listeners, timers, discoveryItems, delivered>>

\* the processList interval fires: sendProcessList() -> getProcessMap() -> pm2.listAsync()
ProcessListTick ==
    /\ Running
    /\ "processList" \in timers
    /\ Room(1)
    /\ inflight' = Issue(inflight, ListRequest)
    /\ last' = Did("ProcessListTick", NoInput, << >>, <<ListRequest>>, << >>, "")
    /\ UNCHANGED <<cli, callers, trackerPc, busHandler, processes, monitor, listeners, timers, discoveryItems, delivered>>

\* a list query of getProcessMap() succeeded: the callback of sendProcessList
ListOk(processList) ==
    LET processMap == getProcessMap(processList)
        dataObject == sendProcessListData(processMap)
    IN /\ Running
       /\ InFlight(ListRequest)
       /\ inflight' = Issue(Complete(inflight, ListRequest), SendRequest("processList", dataObject))
       /\ last' = Did("ListOk", [processList |-> processList, processMap |-> processMap],
                      << >>, << >>, <<dataObject>>, "")
       /\ UNCHANGED <<cli, callers, trackerPc, busHandler, processes, monitor, listeners, timers, discoveryItems, delivered>>

\* a variant of sendProcessList that sends an empty batch when the query fails
ListFail_SendEmpty ==
    /\ Running
    /\ InFlight(ListRequest)
    /\ inflight' = Issue(Complete(inflight, ListRequest), SendRequest("processList", NoValues))
    /\ last' = Did("ListFail", NoInput, << >>, << >>, <<NoValues>>, "")
    /\ UNCHANGED <<cli, callers, trackerPc, busHandler, processes, monitor, listeners, timers, discoveryItems, delivered>>

\* a list query of getProcessMap() failed: sendProcessList() rejects, the error is logged
ListFail ==
    /\ Running
    /\ InFlight(ListRequest)
    /\ inflight' = Complete(inflight, ListRequest)
    /\ last' = Did("ListFail", NoInput, << >>, << >>, << >>, "rejected")
    /\ UNCHANGED <<cli, callers, trackerPc, busHandler, processes, monitor, listeners, timers, discoveryItems, delivered>>

\* the processManager interval fires: sendPM2Status() -> getPM2State() -> fs.readFile()
ProcessManagerTick ==
    /\ Running
    /\ "processManager" \in timers
    /\ Room(1)
    /\ inflight' = Issue(inflight, ReadFileRequest)
    /\ last' = Did("ProcessManagerTick", NoInput, << >>, <<ReadFileRequest>>, << >>, "")
    /\ UNCHANGED <<cli, callers, trackerPc, busHandler, processes, monitor, listeners, timers, discoveryItems, delivered>>

\* the pidfile was read -> pidusage.stat(PM2PID)
ReadFileOk(pidfileContent) ==
    /\ Running
    /\ InFlight(ReadFileRequest)
    /\ inflight' = Issue(Complete(inflight, ReadFileRequest), StatRequest(pidFromFile(pidfileContent)))
    /\ last' = Did("ReadFileOk", [pidfileContent |-> pidfileContent], << >>, <<StatRequest(pidFromFile(pidfileContent))>>, << >>, "")
    /\ UNCHANGED <<cli, callers, trackerPc, busHandler, processes, monitor, listeners, timers, discoveryItems, delivered>>

\* reading the pidfile failed: no callback of getPM2State handles the
\* rejection, so getPM2State() and sendPM2Status() reject; the error is logged
ReadFileFail(code) ==
    /\ Running
    /\ InFlight(ReadFileRequest)
    /\ inflight' = Complete(inflight, ReadFileRequest)
    /\ last' = Did("ReadFileFail", [code |-> code], << >>, << >>, << >>, "rejected")
    /\ UNCHANGED <<cli, callers, trackerPc, busHandler, processes, monitor, listeners, timers, discoveryItems, delivered>>

\* getPM2State() fulfilled with processState: the callback of sendPM2Status
PM2StateGot(request, op, input, processState) ==
    LET dataObject == sendPM2StatusData(processState)
    IN /\ inflight' = Issue(Complete(inflight, request), SendRequest("pm2", dataObject))
       /\ last' = Did(op, input @@ [processState |-> processState], << >>, << >>, <<dataObject>>, "")
       /\ UNCHANGED <<cli, callers, trackerPc, busHandler, processes, monitor, listeners, timers, discoveryItems, delivered>>

\* pidusage.stat called back without an error
StatOk(pid, usageInfo) ==
    /\ Running
    /\ InFlight(StatRequest(pid))
    /\ PM2StateGot(StatRequest(pid), "StatOk", [pid |-> pid, usageInfo |-> usageInfo],
                   pm2StateFrom(usageInfo, pid))

\* pidusage.stat called back with an error
StatFail(pid, code) ==
    /\ Running
    /\ InFlight(StatRequest(pid))
    /\ IF statErrorIsOffline(code)
       THEN PM2StateGot(StatRequest(pid), "StatFail", [pid |-> pid, code |-> code],
                        pm2StateFrom(Null, pid))
       ELSE /\ inflight' = Complete(inflight, StatRequest(pid))
            /\ last' = Did("StatFail", [pid |-> pid, code |-> code], << >>, << >>, << >>, "rejected")
            /\ UNCHANGED <<cli, callers, trackerPc, busHandler, processes, monitor, listeners, timers,
                           discoveryItems, delivered>>

\* the transport accepted a batch: the promise of send() fulfils, a line is logged
SendOk(request) ==
    /\ Running
    /\ request.kind = "send"
    /\ InFlight(request)
    /\ inflight' = Complete(inflight, request)
    /\ last' = Did("SendOk", [origin |-> request.origin], << >>, << >>, << >>, "fulfilled")
    /\ UNCHANGED <<cli, callers, trackerPc, busHandler, processes, monitor, listeners, timers, discoveryItems, delivered>>

\* a variant of the error callback that also clears the intervals
SendFail_Disarm(request) ==
    /\ Running
    /\ request.kind = "send"
    /\ InFlight(request)
    /\ inflight' = Complete(inflight, request)
    /\ timers' = {}
    /\ last' = Did("SendFail", [origin |-> request.origin], << >>, << >>, << >>, "rejected")
    /\ UNCHANGED <<cli, callers, trackerPc, busHandler, processes, monitor, listeners, discoveryItems, delivered>>

\* the transport refused a batch: the promise of send() rejects, the error is logged
SendFail(request) ==
    /\ Running
    /\ request.kind = "send"
    /\ InFlight(request)
    /\ inflight' = Complete(inflight, request)
    /\ last' = Did("SendFail", [origin |-> request.origin], << >>, << >>, << >>, "rejected")
    /\ UNCHANGED <<cli, callers, trackerPc, busHandler, processes, monitor, listeners, timers, discoveryItems, delivered>>

----------------------------------------------------------------------------
(* Specifications *)

\* the start of tracker and monitor
StartSteps(lists) ==
    \/ Start
    \/ ConnectOk
    \/ LaunchBusOk
    \/ StartStepFail
    \/ \E processList \in lists : StartListOk(processList)

\* monitor.js: the end of a run whose start failed
ProgramSteps ==
    Fatal

\* the completion of a send
SendSteps ==
    \/ \E request \in BagToSet(inflight) : SendOk(request)
    \/ \E request \in BagToSet(inflight) : SendFail(request)

\* the periodic process list cycle
ProcessListSteps(lists) ==
    \/ ProcessListTick
    \/ \E processList \in lists : ListOk(processList)
    \/ ListFail

\* the periodic supervisor status cycle
ProcessManagerSteps(pidfiles) ==
    \/ ProcessManagerTick
    \/ \E pidfileContent \in pidfiles : ReadFileOk(pidfileContent)
    \/ \E code \in ErrorCodes : ReadFileFail(code)
    \/ \E pidfileContent \in pidfiles, usageInfo \in UsageInfos :
          StatOk(pidFromFile(pidfileContent), usageInfo)
    \/ \E pidfileContent \in pidfiles, code \in ErrorCodes :
          StatFail(pidFromFile(pidfileContent), code)

\* The whole program, over one process and one pidfile.
SystemLists == { l \in ProcessLists : \A i \in 1..Len(l) : l[i].pm_id = 0 }
SystemEvents == { e \in BusEvents : e.process.pm_id = 0 }
SystemPidFiles == { <<"7">> }

Next ==
    \/ StartSteps(SystemLists)
    \/ \E event \in SystemEvents : BusEvent(event)
    \/ ProcessListSteps(SystemLists)
    \/ ProcessManagerSteps(SystemPidFiles)
    \/ SendSteps
    \/ ProgramSteps

Spec == Init /\ [][Next]_vars

\* The tracker on its own (no listener: monitoring off), over all lists and events.
InitTracker == Init /\ ~monitor

NextTracker ==
    \/ StartSteps(ProcessLists)
    \/ \E event \in BusEvents : BusEvent(event)

SpecTracker == InitTracker /\ [][NextTracker]_vars

\* The start of the monitor over all lists, with the events of one process.
NextStart ==
    \/ StartSteps(ProcessLists)
    \/ \E event \in SystemEvents : BusEvent(event)
    \/ SendSteps

SpecStart == Init /\ [][NextStart]_vars

\* The process list cycle, over all lists of two processes.
ReportLists == { l \in ProcessLists : \A i \in 1..Len(l) : l[i].pm_id \in {0, 1} }

NextProcessList ==
    \/ StartSteps(SystemLists)
    \/ ProcessListSteps(ReportLists)
    \/ SendSteps

SpecProcessList == Init /\ [][NextProcessList]_vars

\* The supervisor status cycle, over all pidfiles.
NextProcessManager ==
    \/ StartSteps(SystemLists)
    \/ ProcessManagerSteps(PidFileContents)
    \/ SendSteps

SpecProcessManager == Init /\ [][NextProcessManager]_vars

\* tracker.stop(), called by the owner of the tracker at any moment
StopSteps ==
    \/ Stop
    \/ \E outcome \in {"fulfilled", "rejected"} : Disconnected(outcome)

\* The tracker and the monitor with a caller that stops the tracker.
NextStop ==
    \/ StartSteps(SystemLists)
    \/ \E event \in SystemEvents : BusEvent(event)
    \/ StopSteps
    \/ SendSteps

SpecStop == Init /\ [][NextStop]_vars

\* node monitor.js --discover [--monitor]: the discovery run
InitDiscover ==
    /\ monitor \in BOOLEAN
    /\ discover = TRUE
    /\ Constructed

NextDiscover ==
    \/ StartSteps(ProcessLists)
    \/ \E event \in SystemEvents : BusEvent(event)
    \/ SendSteps
    \/ ProgramSteps

SpecDiscover == InitDiscover /\ [][NextDiscover]_vars

\* The tracker and the monitor over the events of two processes.
ReportEvents == { e \in BusEvents : e.process.pm_id \in {0, 1} }

NextEvents ==
    \/ StartSteps(SystemLists)
    \/ \E event \in ReportEvents : BusEvent(event)
    \/ SendSteps

\* node monitor.js --monitor
InitMonitoring == Init /\ monitor

SpecEvents == InitMonitoring /\ [][NextEvents]_vars

\* The start, the bus events and the process list cycle over processes of two names.
NextIdentity ==
    \/ StartSteps(IdentityLists)
    \/ \E event \in IdentityEvents : BusEvent(event)
    \/ ProcessListSteps(IdentityLists)
    \/ SendSteps

SpecIdentity == InitMonitoring /\ [][NextIdentity]_vars

\* The cache under everything that runs once the tracker has started.
NextCache ==
    \/ StartSteps(SystemLists)
    \/ \E event \in ReportEvents : BusEvent(event)
    \/ ProcessListSteps(SystemLists)
    \/ StopSteps
    \/ SendSteps

SpecCache == InitMonitoring /\ [][NextCache]_vars

\* The two intervals of the monitor with a caller that stops the tracker.
NextTimers ==
    \/ StartSteps(SystemLists)
    \/ \E event \in SystemEvents : BusEvent(event)
    \/ StopSteps
    \/ ProcessListSteps(SystemLists)
    \/ ProcessManagerSteps(SystemPidFiles)
    \/ SendSteps

SpecTimers == InitMonitoring /\ [][NextTimers]_vars

\* The discovery registry with a caller of its three operations.
NextRegistry ==
    \/ \E item \in RegistryItems : AddDiscoveryItem(item)
    \/ \E removalSpecification \in RemovalSpecifications :
          RemoveDiscoveryItems(removalSpecification)
    \/ GetDiscoveryData

SpecRegistry == InitTracker /\ [][NextRegistry]_vars

----------------------------------------------------------------------------
(* Properties *)

\* the identity, the cache entry found and the state built, of the bus event
\* the last callback handled
EventID == getProcessID(last.input.event.process)
EventOld == last.input.oldState
EventNew == ProcessState(last.input.event.process)
EventSameStatus == EventOld # Undefined /\ EventOld.status = last.input.event.process.status

\* C1 as stated: a bus event emits 'processStateChanged' if and only if the
\* cache held no entry for its identity or the cached status differs from the
\* event's status; an event whose status equals the cached status emits none;
\* and the first event ever delivered for an identity always emits one.
C1_AsStated ==
    last.op = "BusEvent" =>
        /\ (Len(last.emitted) = 1) <=> (EventOld = Undefined \/ ~EventSameStatus)
        /\ EventSameStatus => last.emitted = << >>
        /\ last.input.first => Len(last.emitted) = 1

\* C1 amended: a bus event emits exactly one 'processStateChanged', for its own
\* identity, if the cache held no entry for the identity or the cached status
\* differs from the event's status, and emits none otherwise; an event whose
\* status equals the cached status emits none whatever cpu, memory and
\* restarts are; an event for an identity with no cache entry always emits one.
C1_EmitsIffStatusChanged ==
    last.op = "BusEvent" =>
        /\ Len(last.emitted) \in {0, 1}
        /\ (Len(last.emitted) = 1) <=> (EventOld = Undefined \/ ~EventSameStatus)
        /\ EventSameStatus => last.emitted = << >>
        /\ EventOld = Undefined => Len(last.emitted) = 1
        /\ \A i \in 1..Len(last.emitted) : last.emitted[i].processID = EventID

\* a resource-only change of a cached process was delivered and emitted nothing
C1_Witness ==
    /\ last.op = "BusEvent"
    /\ EventSameStatus
    /\ EventOld.resources # EventNew.resources
    /\ EventOld.restarts # EventNew.restarts
    /\ last.emitted = << >>

\* C2: for every identity, the cache entry is the state built from the last
\* bus event delivered for it, whether or not that event emitted a
\* notification, as long as the initial list has not been loaded since.
C2_LastWriteWins ==
    \A id \in DOMAIN delivered :
        ~delivered[id].loadedSince =>
            ObjGet(processes, id) = ProcessState(delivered[id].process)

\* an event that emitted nothing replaced a cache entry that differed from it
C2_Witness ==
    /\ last.op = "BusEvent"
    /\ last.emitted = << >>
    /\ EventOld # EventNew
    /\ ObjGet(processes, EventID) = EventNew

\* the identities of a process list
ListIDs(processList) ==
    { processList[i].name \o "-" \o ToString(processList[i].pm_id) : i \in 1..Len(processList) }

\* C3: getCachedProcessMap() is the empty map before start() and as long as
\* neither a bus event nor the initial list has arrived, and when
\* tracker.start() fulfils its keys are exactly the identities of the initial
\* list, whatever bus events were delivered before.
C3_CachedMapAtStart ==
    /\ trackerPc = "idle" => getCachedProcessMap = EmptyObject
    /\ (trackerPc # "started" /\ DOMAIN delivered = {}) => getCachedProcessMap = EmptyObject
    /\ last.op = "StartListOk" =>
          /\ KeySet(getCachedProcessMap) = ListIDs(last.input.processList)
          /\ Len(getCachedProcessMap) = Cardinality(ListIDs(last.input.processList))

\* start() fulfilled after a bus event for an identity the initial list lacks
C3_Witness ==
    /\ last.op = "StartListOk"
    /\ \E id \in DOMAIN delivered : id \notin ListIDs(last.input.processList)
    /\ last.input.processList # << >>

BothTimers == {"processList", "processManager"}

\* C4: with monitoring on, a bus event initiates one send per notification it
\* emits, in the same callback, and the batch has the single key
\* pm2.processes[<identity>,status] with the new status as value; web-0
\* going from online to stopping sends {pm2.processes[web-0,status]: stopping}.
C4_RealTimeStatusSend ==
    (monitor /\ last.op = "BusEvent") =>
        /\ Len(last.sent) = Len(last.emitted)
        /\ \A i \in 1..Len(last.emitted) :
              /\ DOMAIN last.sent[i] =
                    {"pm2.processes[" \o last.emitted[i].processID \o ",status]"}
              /\ \A k \in DOMAIN last.sent[i] : last.sent[i][k] = last.emitted[i].newState.status
              /\ InFlight(SendRequest("realtime", last.sent[i]))
        /\ (EventID = "web-0" /\ EventOld # Undefined /\ EventOld.status = "online"
                /\ EventNew.status = "stopping")
              => last.sent = << ("pm2.processes[web-0,status]" :> "stopping") >>

\* web-0 went from online to stopping and the send was initiated while another
\* request was still in flight
C4_Witness ==
    /\ monitor
    /\ last.op = "BusEvent"
    /\ EventID = "web-0"
    /\ EventOld # Undefined
    /\ EventOld.status = "online"
    /\ last.sent = << ("pm2.processes[web-0,status]" :> "stopping") >>
    /\ BagCardinality(inflight) = 2

FailureOps == {"ListFail", "ReadFileFail", "StatFail", "SendFail"}

\* C5: once the monitor has started with monitoring on, both intervals stay
\* armed and the listener stays registered, also after a failed query or
\* send; the callback that handles a failure issues no query and no send; and
\* whenever there is room for a request each interval can still fire.
C5_FailureIsolation ==
    (monitor /\ trackerPc = "started") =>
        /\ timers = BothTimers
        /\ listeners = 1
        /\ (last.op \in FailureOps /\ last.outcome = "rejected") =>
              (last.queries = << >> /\ last.sent = << >>)
        /\ Room(1) => (ENABLED ProcessListTick /\ ENABLED ProcessManagerTick)

\* a send failed and both intervals are still armed
C5_Witness ==
    /\ last.op = "SendFail"
    /\ last.outcome = "rejected"
    /\ timers = BothTimers
    /\ listeners = 1
    /\ ENABLED ProcessListTick

OfflineState ==
    [name |-> "PM2", status |-> "offline", resources |-> [cpu |-> 0, memory |-> 0],
     restarts |-> 0, pid |-> 0]

OfflineData ==
    ("pm2.status" :> "offline") @@ ("pm2.cpu" :> 0) @@ ("pm2.memory" :> 0) @@ ("pm2.pid" :> 0)

\* C6 as stated: when the pidfile does not exist (readFile fails with ENOENT),
\* sendPM2Status() does not reject and sends the batch status=offline, cpu=0,
\* memory=0, pid=0.
C6_MissingPidFileSendsOffline ==
    (last.op = "ReadFileFail" /\ last.input.code = "ENOENT") =>
        (last.outcome # "rejected" /\ last.sent = <<OfflineData>>)

\* C7: with the pidfile read, getPM2State() yields the offline state (status
\* offline, cpu 0, memory 0, restarts 0, pid 0) when pidusage reports ENOENT
\* or yields no usage data, and the online state with the queried usage,
\* restarts 0 and the pid of the pidfile when it yields usage data; the status
\* is online exactly when the pid is not 0.
C7_SupervisorState ==
    /\ (last.op = "ReadFileOk" /\ last.input.pidfileContent = <<"4", "2", "\n">>)
          => last.queries = <<StatRequest(42)>>
    /\ (last.op = "StatFail" /\ last.input.code = "ENOENT")
          => last.input.processState = OfflineState
    /\ (last.op = "StatOk" /\ last.input.usageInfo = Null)
          => last.input.processState = OfflineState
    /\ (last.op = "StatOk" /\ last.input.usageInfo # Null)
          => last.input.processState =
                [name |-> "PM2", status |-> "online", resources |-> last.input.usageInfo,
                 restarts |-> 0, pid |-> last.input.pid]
    /\ (last.op \in {"StatOk", "StatFail"} /\ last.outcome # "rejected")
          => (last.input.processState.status = "online" <=> last.input.processState.pid # 0)
             /\ last.input.processState.status \in {"online", "offline"}

\* the supervisor of pid 42 was found online
C7_Witness ==
    /\ last.op = "StatOk"
    /\ last.input.processState.status = "online"
    /\ last.input.processState.pid = 42
    /\ last.input.processState.resources = [cpu |-> 3, memory |-> 256]

\* the discovery item of a list entry
DiscoveryItemOf(processEntry) ==
    ("{#PROCESS_ID}" :> (processEntry.name \o "-" \o ToString(processEntry.pm_id))) @@
    ("{#PROCESS_NAME}" :> processEntry.name)

WebList ==
    << ListEntry("web", 0, [status |-> "online", usage |-> [cpu |-> 5, memory |-> 64],
                            restarts |-> 0]),
       ListEntry("web", 1, [status |-> "online", usage |-> [cpu |-> 5, memory |-> 64],
                            restarts |-> 0]) >>

\* C8: when monitor.start() fulfils, with monitoring on or off, the discovery
\* data is {data: [...]} with one item {#PROCESS_ID, #PROCESS_NAME} per entry
\* of the initial list, in the order of the list; for [web 0, web 1] the items
\* are web-0, then web-1.
C8_DiscoveryAtStart ==
    last.op = "StartListOk" =>
        /\ getDiscoveryData =
              [data |-> [i \in 1..Len(last.input.processList) |->
                            DiscoveryItemOf(last.input.processList[i])]]
        /\ last.input.processList = WebList =>
              getDiscoveryData.data =
                 << ("{#PROCESS_ID}" :> "web-0") @@ ("{#PROCESS_NAME}" :> "web"),
                    ("{#PROCESS_ID}" :> "web-1") @@ ("{#PROCESS_NAME}" :> "web") >>

\* start() fulfilled for the list [web 0, web 1] with monitoring off
C8_Witness ==
    /\ last.op = "StartListOk"
    /\ ~monitor
    /\ last.input.processList = WebList
    /\ Len(getDiscoveryData.data) = 2

\* C9: with options.monitor false no send is ever initiated or in flight, no
\* query is in flight, no interval is armed and no listener is registered.
C9_NoReportWithoutMonitor ==
    ~monitor =>
        /\ last.sent = << >>
        /\ inflight = EmptyBag
        /\ timers = {}
        /\ listeners = 0

\* with monitoring off the discovery list was populated and a bus event
\* emitted a notification, and nothing was sent
C9_Witness ==
    /\ ~monitor
    /\ trackerPc = "started"
    /\ discoveryItems # << >>
    /\ last.op = "BusEvent"
    /\ last.emitted # << >>
    /\ last.sent = << >>

ReportFields == {"status", "cpu", "memory", "restarts"}

\* C10: a tick of the process list interval issues one list query, and when
\* the query succeeds one send is initiated whose batch has, for every entry
\* of the list it yielded and for nothing else, the keys
\* pm2.processes[<identity>,status|cpu|memory|restarts] with the values of
\* that entry.
C10_ProcessListBatch ==
    /\ last.op = "ProcessListTick" =>
          (last.queries = <<ListRequest>> /\ last.sent = << >> /\ InFlight(ListRequest))
    /\ last.op = "ListOk" =>
          LET processList == last.input.processList
              key(id, field) == "pm2.processes[" \o id \o "," \o field \o "]"
              idOf(e) == e.name \o "-" \o ToString(e.pm_id)
          IN /\ Len(last.sent) = 1
             /\ last.queries = << >>
             /\ InFlight(SendRequest("processList", last.sent[1]))
             /\ DOMAIN last.sent[1] = { key(id, f) : id \in ListIDs(processList), f \in ReportFields }
             /\ \A i \in 1..Len(processList) :
                   LET e == processList[i]
                   IN /\ last.sent[1][key(idOf(e), "status")] = e.pm2_env.status
                      /\ last.sent[1][key(idOf(e), "cpu")] = e.monit.cpu
                      /\ last.sent[1][key(idOf(e), "memory")] = e.monit.memory
                      /\ last.sent[1][key(idOf(e), "restarts")] = e.pm2_env.restart_time

\* a fresh list without the cached web-0 was rendered into a batch of four keys
C10_Witness ==
    /\ last.op = "ListOk"
    /\ ObjHas(processes, "web-0")
    /\ ListIDs(last.input.processList) = {"web-1"}
    /\ Cardinality(DOMAIN last.sent[1]) = 4

\* C11: sendProcessList() fulfils only in the callback that completes its
\* send with success; when its query fails it rejects in that callback and no
\* send is initiated; when its send is refused it rejects in that callback;
\* the call issues one query, the callback of the query initiates one send, and
\* no callback that settles the call issues a query or a send.
C11_ProcessListOutcome ==
    /\ last.op = "ProcessListTick" =>
          (last.queries = <<ListRequest>> /\ last.sent = << >> /\ last.outcome = "")
    /\ last.op = "ListOk" =>
          (Len(last.sent) = 1 /\ last.queries = << >> /\ last.outcome = ""
              /\ InFlight(SendRequest("processList", last.sent[1])))
    /\ last.op = "ListFail" =>
          (last.outcome = "rejected" /\ last.sent = << >> /\ last.queries = << >>)
    /\ (last.op = "SendOk" /\ last.input.origin = "processList") =>
          (last.outcome = "fulfilled" /\ last.sent = << >> /\ last.queries = << >>)
    /\ (last.op = "SendFail" /\ last.input.origin = "processList") =>
          (last.outcome = "rejected" /\ last.sent = << >> /\ last.queries = << >>)
    /\ (last.outcome = "fulfilled" /\ last.op # "StartListOk") => last.op = "SendOk"

\* the query of one sendProcessList() failed while the query of another is pending
C11_Witness ==
    /\ last.op = "ListFail"
    /\ last.outcome = "rejected"
    /\ InFlight(ListRequest)
    /\ \A request \in BagToSet(inflight) : request.kind # "send"

\* C12: a bus event delivered after stop() was called leaves the cache entry
\* of its identity as it was, emits no notification and sends no report.
C12_StoppedIgnoresEvents ==
    (last.op = "BusEvent" /\ stopCalled) =>
        /\ ObjGet(processes, EventID) = EventOld
        /\ last.emitted = << >>
        /\ last.sent = << >>

\* C13: when a step of tracker.start() fails, start() rejects and issues no
\* further request; after the failure the discovery list is empty and no
\* interval is armed; and a bus event delivered after the failure leaves the
\* cache entry of its identity as it was, emits no notification and sends no
\* report.
C13_FailedStartInert ==
    /\ last.op = "StartStepFail" =>
          (last.outcome = "rejected" /\ last.queries = << >> /\ last.sent = << >>)
    /\ trackerPc = "failed" => (discoveryItems = << >> /\ timers = {})
    /\ (trackerPc = "failed" /\ last.op = "BusEvent") =>
          /\ ObjGet(processes, EventID) = EventOld
          /\ last.emitted = << >>
          /\ last.sent = << >>

\* an item has every key of the specification, with an equal value
HasAllOf(item, matchSpec) ==
    \A k \in DOMAIN matchSpec : k \in DOMAIN item /\ item[k] = matchSpec[k]

\* C14: removeDiscoveryItems(matchSpec) leaves exactly the items that lack a
\* key of matchSpec or differ from it in the value of one, in their order;
\* an empty matchSpec leaves no item; {'{#PROCESS_ID}': 'X'} leaves exactly
\* the items whose process id is not X, whatever other keys they have.
C14_RemoveExactlyMatching ==
    [][last'.op = "removeDiscoveryItems" =>
          LET matchSpec == last'.input.removalSpecification
          IN /\ discoveryItems' =
                   SelectSeq(discoveryItems, LAMBDA item : ~HasAllOf(item, matchSpec))
             /\ DOMAIN matchSpec = {} => discoveryItems' = << >>
             /\ matchSpec = ("{#PROCESS_ID}" :> "X") =>
                   discoveryItems' =
                       SelectSeq(discoveryItems, LAMBDA item : item["{#PROCESS_ID}"] # "X")
             /\ last'.input.removed = Len(discoveryItems) - Len(discoveryItems')]_vars

\* {'{#PROCESS_ID}': 'X'} removed two items and left the item of Y
C14_Witness ==
    /\ last.op = "removeDiscoveryItems"
    /\ last.input.removalSpecification = ("{#PROCESS_ID}" :> "X")
    /\ last.input.removed = 2
    /\ discoveryItems = << ("{#PROCESS_ID}" :> "Y") >>

\* C15: neither the call of getProcessMap() nor the completion of its query
\* changes the cached map, and the map it returns has exactly the identities
\* of the list the query yielded, each with the state the list gives: an
\* identity the cache has and the list lacks is not in it.
C15_FreshMapLeavesCache ==
    [][/\ last'.op \in {"ProcessListTick", "ListOk", "ListFail"} => processes' = processes
       /\ last'.op = "ListOk" =>
             LET processList == last'.input.processList
                 processMap == last'.input.processMap
             IN /\ KeySet(processMap) = ListIDs(processList)
                /\ Len(processMap) = Len(processList)
                /\ \A i \in 1..Len(processList) :
                      LET state == ObjGet(processMap, getProcessID(processList[i]))
                      IN /\ state.status = processList[i].pm2_env.status
                         /\ state.resources = processList[i].monit
                         /\ state.restarts = processList[i].pm2_env.restart_time
                /\ \A id \in KeySet(processes) \ ListIDs(processList) :
                      ~ObjHas(processMap, id)]_vars

\* a query yielded a list without a cached identity, and with another one
C15_Witness ==
    /\ last.op = "ListOk"
    /\ \E id \in KeySet(processes) : ~ObjHas(last.input.processMap, id)
    /\ \E id \in KeySet(last.input.processMap) : ~ObjHas(processes, id)

ManagerKeys == {"pm2.status", "pm2.cpu", "pm2.memory", "pm2.pid"}

\* identities of processes, some with names that are words of the keys
SomeIdentities ==
    { n \o "-" \o ToString(i) : n \in Names \cup {"", "PM2", "status", "pid"}, i \in PmIds }

\* the per-process keys of these identities, for every field a key is made of
SomeProcessKeys ==
    { getDataKey(id, Undefined, f) : id \in SomeIdentities \cup {"", "PM2", "status", "pid"},
                                     f \in ReportFields \cup {"pid", ""} }

\* C16: the callback in which sendPM2Status() obtains the supervisor state
\* initiates exactly one send, whose batch has exactly the keys pm2.status,
\* pm2.cpu, pm2.memory and pm2.pid with the values of that state; no batch
\* of the supervisor cycle has a per-process key, and no supervisor key is a
\* per-process key.
C16_SupervisorBatch ==
    /\ (last.op \in {"StatOk", "StatFail"} /\ last.outcome # "rejected") =>
          /\ Len(last.sent) = 1
          /\ last.queries = << >>
          /\ DOMAIN last.sent[1] = ManagerKeys
          /\ last.sent[1]["pm2.status"] = last.input.processState.status
          /\ last.sent[1]["pm2.cpu"] = last.input.processState.resources.cpu
          /\ last.sent[1]["pm2.memory"] = last.input.processState.resources.memory
          /\ last.sent[1]["pm2.pid"] = last.input.processState.pid
          /\ InFlight(SendRequest("pm2", last.sent[1]))
    /\ \A request \in BagToSet(inflight) :
          (request.kind = "send" /\ request.origin = "pm2") =>
              (DOMAIN request.values = ManagerKeys
                  /\ DOMAIN request.values \cap SomeProcessKeys = {})
    /\ { getManagerKey(f) : f \in {"status", "cpu", "memory", "pid"} } \cap SomeProcessKeys = {}

\* the state of a running supervisor, read from a pidfile that ends with a
\* newline, was sent
C16_Witness ==
    /\ last.op = "StatOk"
    /\ last.sent = << ("pm2.status" :> "online") @@ ("pm2.cpu" :> 3) @@
                      ("pm2.memory" :> 256) @@ ("pm2.pid" :> 42) >>

\* JSON.stringify({data: [{'{#PROCESS_ID}': 'web-0', '{#PROCESS_NAME}': 'web'}]}, null, '\t')
WebDiscoveryJSON ==
    "{\n\t\"data\": [\n\t\t{\n\t\t\t\"{#PROCESS_ID}\": \"web-0\",\n\t\t\t\"{#PROCESS_NAME}\": \"web\"\n\t\t}\n\t]\n}"

\* C17: in a discovery run nothing is written to the output before
\* monitor.start() has fulfilled; what is written then is the one complete
\* JSON text of the discovery data, and the process exits with status 0; when
\* a step of start() has failed nothing has been written and the process has
\* not exited with status 0, and does not later.
C17_DiscoveryOutput ==
    /\ trackerPc # "started" => stdout = << >>
    /\ trackerPc = "failed" => (stdout = << >> /\ exitStatus # Exited(0))
    /\ trackerPc = "started" =>
          /\ stdout = << JSONstringify([data |-> discoveryItems]) >>
          /\ exitStatus = Exited(0)
          /\ discoveryItems = << DiscoveryItemOf([name |-> "web", pm_id |-> 0]) >> =>
                stdout = << WebDiscoveryJSON >>
          /\ discoveryItems = << >> => stdout = << "{\n\t\"data\": []\n}" >>

\* the initial list query failed and the process ended on the uncaught
\* exception, with nothing written
C17_Witness ==
    /\ discover
    /\ last.op = "Fatal"
    /\ busHandler
    /\ stdout = << >>
    /\ exitStatus = Exited(1)

\* C18: a call of getDiscoveryData() leaves the list of the registry as it
\* was, and the item list of a result a caller holds stays what it was when
\* the call returned, whatever addDiscoveryItem and removeDiscoveryItems
\* calls follow.
C18_SnapshotStable ==
    /\ last.op = "getDiscoveryData" => discoveryItems = snapshot.asReturned
    /\ snapshot # Undefined => snapshot.data = snapshot.asReturned

\* s is t with some elements left out
RECURSIVE IsSubsequence(_, _)
IsSubsequence(s, t) ==
    IF s = << >> THEN TRUE
    ELSE IF t = << >> THEN FALSE
    ELSE IF Head(s) = Head(t) THEN IsSubsequence(Tail(s), Tail(t))
    ELSE IsSubsequence(s, Tail(t))

\* C19: addDiscoveryItem(item) makes the list the old list followed by the
\* item, also when an equal item is in the list already; every other
\* operation of the registry leaves the items that remain in the order they
\* had. So the list is always in the order of insertion.
C19_AppendKeepsOrder ==
    [][/\ last'.op = "addDiscoveryItem" =>
             /\ discoveryItems' = discoveryItems \o << last'.input.item >>
             /\ Len(discoveryItems') = Len(discoveryItems) + 1
             /\ SubSeq(discoveryItems', 1, Len(discoveryItems)) = discoveryItems
       /\ last'.op # "addDiscoveryItem" => IsSubsequence(discoveryItems', discoveryItems)]_vars

\* an item equal to the first one was added after another
C19_Witness ==
    /\ last.op = "addDiscoveryItem"
    /\ last.input.item = ("{#PROCESS_ID}" :> "X")
    /\ discoveryItems = << ("{#PROCESS_ID}" :> "X"), ("{#PROCESS_ID}" :> "Y"),
                           ("{#PROCESS_ID}" :> "X") >>

\* C20: with monitoring on and the monitor started, whatever requests are
\* pending, each interval can fire and every bus event can be handled as long
\* as the model has room for the requests they issue; a tick issues its own
\* query and a status change its own send in the callback itself.
C20_CyclesIndependent ==
    (monitor /\ trackerPc = "started" /\ Running) =>
        /\ Room(1) =>
              /\ ENABLED ProcessListTick
              /\ ENABLED ProcessManagerTick
              /\ \A event \in SystemEvents : ENABLED BusEvent(event)
        /\ last.op = "ProcessListTick" =>
              (last.queries = <<ListRequest>> /\ InFlight(ListRequest))
        /\ last.op = "ProcessManagerTick" =>
              (last.queries = <<ReadFileRequest>> /\ InFlight(ReadFileRequest))
        /\ last.op = "BusEvent" =>
              (Len(last.sent) = Len(last.emitted)
                  /\ \A i \in 1..Len(last.sent) : InFlight(SendRequest("realtime", last.sent[i])))

\* the process list interval fired while the query of its previous tick was
\* still pending
C20_Witness ==
    /\ last.op = "ProcessListTick"
    /\ CopiesIn(ListRequest, inflight) = 2

\* C21: the callback of a bus event does all the work for that event and for
\* no other: it writes the cache entry of the event's identity, emits at most
\* one notification, which is about that event, and initiates the send of
\* that notification; so notifications and real-time sends follow the order
\* of delivery.  The notification's oldState is the state written by the
\* previous event for the identity, or what the initial list put in its place
\* if it was loaded in between, or absent if there was no event and no list.
C21_EventsInOrder ==
    [][last'.op = "BusEvent" =>
          LET event == last'.input.event
              id == getProcessID(event.process)
              newState == ProcessState(event.process)
              old == ObjGet(processes, id)
          IN /\ ObjGet(processes', id) = newState
             /\ Len(last'.emitted) <= 1
             /\ \A i \in 1..Len(last'.emitted) :
                   /\ last'.emitted[i].processID = id
                   /\ last'.emitted[i].newState = newState
                   /\ last'.emitted[i].oldState = old
             /\ Len(last'.sent) = Len(last'.emitted)
             /\ \A i \in 1..Len(last'.sent) :
                   /\ last'.sent[i] = (getDataKey(id, newState, "status") :> newState.status)
                   /\ CopiesIn(SendRequest("realtime", last'.sent[i]), inflight') =
                          CopiesIn(SendRequest("realtime", last'.sent[i]), inflight) + 1
             /\ id \in DOMAIN delivered =>
                   old = IF delivered[id].loadedSince
                         THEN delivered[id].loaded
                         ELSE ProcessState(delivered[id].process)
             /\ (id \notin DOMAIN delivered /\ trackerPc # "started") => old = Undefined]_vars

\* a status change of web-1 was notified and sent, after an event for web-0
\* and an earlier event for web-1, while an earlier send is pending
C21_Witness ==
    /\ last.op = "BusEvent"
    /\ EventID = "web-1"
    /\ ~last.input.first
    /\ Len(last.emitted) = 1
    /\ last.emitted[1].oldState # Undefined
    /\ "web-0" \in DOMAIN delivered
    /\ BagCardinality(inflight) = 2

StartTransitions ==
    { <<"idle", "connecting">>, <<"connecting", "launching">>, <<"launching", "listing">>,
      <<"listing", "started">>,
      <<"connecting", "failed">>, <<"launching", "failed">>, <<"listing", "failed">> }

\* C22: tracker.start() connects, then launches the bus, then registers the
\* handler and asks for the list, then builds the cache, each step in the
\* callback of the success of the one before, and fulfils in the callback that
\* builds the cache; in that callback PM2ZabbixMonitor.start() fills the
\* discovery list from the cache, arms both intervals if monitoring is on,
\* and fulfils, issuing no query and no send; the completion of a send
\* changes nothing of the start.
C22_StartOrder ==
    [][/\ trackerPc' # trackerPc => <<trackerPc, trackerPc'>> \in StartTransitions
       /\ last'.op = "Start" => last'.queries = <<ConnectRequest>>
       /\ (trackerPc = "connecting" /\ trackerPc' = "launching") =>
             last'.queries = <<LaunchBusRequest>>
       /\ (trackerPc = "launching" /\ trackerPc' = "listing") =>
             (last'.queries = <<ListRequest>> /\ ~busHandler /\ busHandler')
       /\ busHandler' # busHandler => (trackerPc = "launching" /\ trackerPc' = "listing")
       /\ timers' # timers => (trackerPc = "listing" /\ trackerPc' = "started")
       /\ (last'.outcome = "fulfilled" /\ last'.op \notin {"SendOk", "Disconnected"}) =>
             (trackerPc = "listing" /\ trackerPc' = "started")
       /\ (trackerPc = "listing" /\ trackerPc' = "started") =>
             LET processList == last'.input.processList
             IN /\ last'.outcome = "fulfilled"
                /\ KeySet(processes') = ListIDs(processList)
                /\ discoveryItems' =
                      [i \in 1..Len(processList) |-> DiscoveryItemOf(processList[i])]
                /\ timers' = IF monitor THEN BothTimers ELSE {}
                /\ last'.queries = << >>
                /\ last'.sent = << >>
                /\ inflight' = inflight
       /\ last'.op \in {"SendOk", "SendFail"} =>
             (trackerPc' = trackerPc /\ timers' = timers /\ discoveryItems' = discoveryItems)]_vars

\* start() fulfilled with two processes and both intervals while a real-time
\* send was pending
C22_Witness ==
    /\ last.op = "StartListOk"
    /\ last.outcome = "fulfilled"
    /\ timers = BothTimers
    /\ Len(discoveryItems) = 2
    /\ \E request \in BagToSet(inflight) : request.kind = "send"

\* C23: with monitoring on, a bus event handled before the initial list is
\* loaded initiates no send, the listener being registered only once
\* tracker.start() has succeeded.
C23_NoReportBeforeLoad ==
    (monitor /\ last.op = "BusEvent" /\ trackerPc # "started") => last.sent = << >>

\* C24: once tracker.start() has completed, for every identity a bus event
\* has been delivered for since the handler was registered, the cache has an
\* entry whose status is the status of the last event delivered for it.
C24_StatusAccurate ==
    trackerPc = "started" =>
        \A id \in DOMAIN delivered :
            /\ ObjHas(processes, id)
            /\ ObjGet(processes, id).status = delivered[id].process.status

WebStatusKey == "pm2.processes[web-0,status]"

\* C25: the two paths do not look at each other: the periodic batch carries
\* the statuses of the list its query yielded, whatever events have been
\* delivered and whatever real-time send is pending, and the real-time send
\* carries the status of its event, whatever periodic batch is pending.  So a
\* batch with an older status can be sent after the real-time report of the
\* change, and the other way round.
C25_PathsUncoordinated ==
    /\ last.op = "ListOk" =>
          \A i \in 1..Len(last.input.processList) :
              LET e == last.input.processList[i]
              IN last.sent[1][getDataKey(getProcessID(e), Undefined, "status")] = e.pm2_env.status
    /\ (monitor /\ last.op = "BusEvent") =>
          \A i \in 1..Len(last.sent) :
              last.sent[i] = (getDataKey(EventID, EventNew, "status") :> EventNew.status)

\* web-0 went to stopping and the real-time report was sent; then a list
\* that still has web-0 online arrived and its batch is sent while the
\* real-time report is pending
C25_Witness ==
    /\ last.op = "ListOk"
    /\ WebStatusKey \in DOMAIN last.sent[1]
    /\ last.sent[1][WebStatusKey] = "online"
    /\ "web-0" \in DOMAIN delivered
    /\ delivered["web-0"].process.status = "stopping"
    /\ ObjGet(processes, "web-0").status = "stopping"
    /\ InFlight(SendRequest("realtime", WebStatusKey :> "stopping"))

\* the other order: the batch with web-0 online is pending when the change to
\* stopping is reported
C25_WitnessBatchFirst ==
    /\ last.op = "BusEvent"
    /\ last.sent = << (WebStatusKey :> "stopping") >>
    /\ \E request \in BagToSet(inflight) :
          /\ request.kind = "send"
          /\ request.origin = "processList"
          /\ WebStatusKey \in DOMAIN request.values
          /\ request.values[WebStatusKey] = "online"

RegistryOps == {"addDiscoveryItem", "removeDiscoveryItems"}

\* the discovery items of a process map, in the order of its keys
DiscoveryItemsOf(processMap) ==
    [i \in 1..Len(processMap) |->
        ("{#PROCESS_ID}" :> processMap[i][1]) @@ ("{#PROCESS_NAME}" :> processMap[i][2].name)]

\* C26: the discovery list is empty until start() fulfils; the callback in
\* which it fulfils, which runs once, makes it the items of the cached map;
\* no other callback changes it but a call of addDiscoveryItem or
\* removeDiscoveryItems: not a bus event, also the first for an identity, nor
\* a tick, a query, or the completion of a send.
C26_DiscoveryOnlyAtStart ==
    [][/\ discoveryItems' # discoveryItems =>
             last'.op \in {"StartListOk"} \cup RegistryOps
       /\ last'.op = "StartListOk" =>
             /\ trackerPc = "listing"
             /\ trackerPc' = "started"
             /\ discoveryItems = << >>
             /\ discoveryItems' = DiscoveryItemsOf(processes')
       /\ trackerPc = "started" => last'.op # "StartListOk"
       /\ last'.op \notin {"StartListOk"} \cup RegistryOps =>
             discoveryItems' = discoveryItems]_vars

\* after a start with an empty list, the first event for web-0 put it in the
\* cache and not in the discovery list
C26_Witness ==
    /\ trackerPc = "started"
    /\ last.op = "BusEvent"
    /\ EventOld = Undefined
    /\ ObjHas(processes, "web-0")
    /\ discoveryItems = << >>

\* C27: when reading the pidfile or asking for the resource usage fails with
\* an error other than ENOENT, getPM2State() rejects in the callback of the
\* failure, and sendPM2Status() with it: no state, offline or other, is made
\* up, no send is initiated and no further query is issued.
C27_HardErrorsSurface ==
    (last.op \in {"ReadFileFail", "StatFail"} /\ last.input.code # "ENOENT") =>
        /\ last.outcome = "rejected"
        /\ last.sent = << >>
        /\ last.queries = << >>
        /\ "processState" \notin DOMAIN last.input

\* the resource usage query for the pid of the pidfile failed with EACCES
C27_Witness ==
    /\ last.op = "StatFail"
    /\ last.input.code = "EACCES"
    /\ last.input.pid = 42
    /\ last.outcome = "rejected"
    /\ \A request \in BagToSet(inflight) : request.kind # "send"

\* the identity of a process: its name, a hyphen, its index
Ident(name, index) == name \o "-" \o ToString(index)

\* descriptors with names that contain or end with a hyphen, or are empty
SomeDescriptors ==
    { [name |-> n, pm_id |-> i] :
        n \in {"web", "web-1", "web-1-0", "web-", "", "1"}, i \in {0, 1, 10, 11} }

\* C28: the process of name n and index i has the identity n-i wherever an
\* identity is made: as key of the cache loaded from the initial list, as
\* '{#PROCESS_ID}' of its discovery item, as key of the cache entry a bus event
\* writes and in the notification and the report key of that event, as key of
\* a fresh map and in the report keys of the periodic batch; so list and bus
\* address the same cache entry.  Descriptors that differ in name or index
\* have different identities.
C28_IdentityDerivation ==
    /\ KeySet(processes) \subseteq { Ident(p[1], p[2]) : p \in IdentityProcesses }
    /\ \A i \in 1..Len(processes) : \E p \in IdentityProcesses :
          processes[i][1] = Ident(p[1], p[2]) /\ processes[i][2].name = p[1]
    /\ last.op = "StartListOk" =>
          /\ Len(processes) = Len(last.input.processList)
          /\ \A i \in 1..Len(last.input.processList) :
                LET e == last.input.processList[i]
                IN /\ ObjHas(processes, Ident(e.name, e.pm_id))
                   /\ discoveryItems[i]["{#PROCESS_ID}"] = Ident(e.name, e.pm_id)
                   /\ discoveryItems[i]["{#PROCESS_NAME}"] = e.name
    /\ last.op = "BusEvent" =>
          LET d == last.input.event.process
          IN /\ ObjHas(processes, Ident(d.name, d.pm_id))
             /\ \A i \in 1..Len(last.emitted) :
                   last.emitted[i].processID = Ident(d.name, d.pm_id)
             /\ \A i \in 1..Len(last.sent) :
                   DOMAIN last.sent[i] =
                       {"pm2.processes[" \o Ident(d.name, d.pm_id) \o ",status]"}
    /\ last.op = "ListOk" =>
          /\ Len(last.input.processMap) = Len(last.input.processList)
          /\ Cardinality(DOMAIN last.sent[1]) = 4 * Len(last.input.processList)
          /\ \A i \in 1..Len(last.input.processList) :
                LET e == last.input.processList[i]
                IN /\ ObjHas(last.input.processMap, Ident(e.name, e.pm_id))
                   /\ \A f \in ReportFields :
                         ("pm2.processes[" \o Ident(e.name, e.pm_id) \o "," \o f \o "]")
                             \in DOMAIN last.sent[1]
    /\ \A d1, d2 \in SomeDescriptors :
          /\ getProcessID(d1) = Ident(d1.name, d1.pm_id)
          /\ d1 # d2 => getProcessID(d1) # getProcessID(d2)

\* the first bus event for the process web of index 1 found the entry the
\* initial list had made for it, next to the entry of the process web-1
C28_Witness ==
    /\ last.op = "BusEvent"
    /\ last.input.first
    /\ EventID = "web-1"
    /\ last.input.event.process.name = "web"
    /\ EventOld # Undefined
    /\ KeySet(processes) = {"web-1", "web-1-0"}

\* C29: once the initial list is loaded, every step keeps every identity of
\* the cache; a bus event writes the entry of its own identity and leaves
\* every other entry as it was; and no other step (a tick, the query of
\* getProcessMap and its answer, a send, stop()) changes the cache at all,
\* also when the answer lacks a cached process.
C29_CacheNeverShrinks ==
    [][trackerPc = "started" =>
          /\ KeySet(processes) \subseteq KeySet(processes')
          /\ last'.op = "BusEvent" =>
                \A id \in KeySet(processes) \ {getProcessID(last'.input.event.process)} :
                    ObjGet(processes', id) = ObjGet(processes, id)
          /\ last'.op # "BusEvent" => processes' = processes]_vars

\* a fresh list without any process arrived, after stop(), and the cache
\* still has both processes
C29_Witness ==
    /\ last.op = "ListOk"
    /\ last.input.processList = << >>
    /\ stopCalled
    /\ KeySet(processes) = {"web-0", "web-1"}

\* C30: when a listener of 'processStateChanged' runs, the entry of the
\* notification's identity in the cached map is the notification's newState,
\* the map being the one the callback leaves behind, and the notification's
\* oldState is the entry the cache had for the identity before the event,
\* absent if it had none.
C30_CacheWrittenBeforeEmit ==
    [][last'.op = "BusEvent" =>
          \A i \in 1..Len(last'.emitted) :
              LET changeEvent == last'.emitted[i]
              IN /\ ObjGet(last'.input.cacheAtEmit, changeEvent.processID) = changeEvent.newState
                 /\ last'.input.cacheAtEmit = processes'
                 /\ changeEvent.oldState = ObjGet(processes, changeEvent.processID)
                 /\ (~ObjHas(processes, changeEvent.processID)) =>
                       changeEvent.oldState = Undefined]_vars

\* the listener ran for web-1 going from online to stopping, and sent it
C30_Witness ==
    /\ last.op = "BusEvent"
    /\ Len(last.emitted) = 1
    /\ last.emitted[1].processID = "web-1"
    /\ last.emitted[1].oldState # Undefined
    /\ last.emitted[1].oldState.status = "online"
    /\ ObjGet(processes, "web-1").status = "stopping"
    /\ last.sent = << ("pm2.processes[web-1,status]" :> "stopping") >>

\* C31: once the start of the monitor has armed the two intervals they stay
\* armed in every later step, whatever runs (bus events, stop(), query and
\* send completions); while the process runs and a request fits, each interval
\* can fire, after tracker.stop() too, its tick then issues a fresh list query
\* or pidfile read, and a query that succeeds after stop() leads to one send.
C31_TimersStayArmed ==
    /\ [](timers = BothTimers /\ Running /\ Room(1) =>
            ENABLED ProcessListTick /\ ENABLED ProcessManagerTick)
    /\ [][/\ timers = BothTimers => timers' = BothTimers
          /\ stopCalled /\ last'.op = "ProcessListTick" =>
                /\ last'.queries = <<ListRequest>>
                /\ BagIn(ListRequest, inflight' (-) inflight)
          /\ stopCalled /\ last'.op = "ProcessManagerTick" =>
                /\ last'.queries = <<ReadFileRequest>>
                /\ BagIn(ReadFileRequest, inflight' (-) inflight)
          /\ stopCalled /\ last'.op \in {"ListOk", "StatOk"} =>
                /\ Len(last'.sent) = 1
                /\ \E request \in BagToSet(inflight' (-) inflight) :
                      /\ request.kind = "send"
                      /\ request.values = last'.sent[1]]_vars

\* after stop() and its disconnect, a tick of the process list interval
\* queried the list and the batch was handed to the transport
C31_Witness ==
    /\ timers = BothTimers
    /\ stopCalled
    /\ ~InFlight(DisconnectRequest)
    /\ last.op = "ListOk"
    /\ Len(last.sent) = 1
    /\ \E request \in BagToSet(inflight) : request.kind = "send" /\ request.origin = "processList"

====
